---- MODULE Spec2Model ----
(***************************************************************************)
(* MIDISock: the singleton-guarded UNIX-socket server of src/server.py.    *)
(*                                                                         *)
(* Several server processes share one endpoint path (SOCK_PATH).  Each     *)
(* process has a main thread (main(), then the menu-bar app and its Quit   *)
(* item) and a daemon thread running _socket_server().  Every system call  *)
(* on the endpoint path is one atomic step, so every interleaving of the   *)
(* processes' guard steps is explored.                                     *)
(***************************************************************************)
EXTENDS Integers, Sequences, FiniteSets, TLC

\* ------------------------------------------------------------------ bounds
Procs == {1, 2}            \* server processes
MaxPlants == 1             \* times another local actor puts a symlink at the path
RaceAccepts == 1           \* Spec: connections one server accepts over a run
RaceBursts == 1            \* Spec: times clients connect over a run
ServeAccepts == 3          \* SpecServe: connections the server accepts over a run
ServeBursts == 2           \* SpecServe: times clients connect over a run
MaxAcceptFails == 1        \* Spec, SpecServe: accept failures of one server over a run
LiveFails == 3             \* SpecLive: accept failures of the server over a run
MaxReplyLen == 3           \* SpecClient: characters of a reply the client reads
MaxPorts == 2             \* ports in an enumerated catalog
MaxChannelInput == 20     \* |midi.channel| of the configurations explored

\* --------------------------------------------------------- program constants
LISTEN_BACKLOG == 8        \* s.listen(8)
NOTE_ON_BASE == 144        \* 0x90
NOTE_OFF_BASE == 128       \* 0x80
VELOCITY_ON == 127
VELOCITY_OFF == 0

Threads == {"main", "srv"}

\* ---------------------------------------------------------------- note map
\* One "character" is a one-character string; BAD is a byte that is not valid
\* UTF-8 and that decode(errors="ignore") drops.
BAD == "?"
Whitespace == {" ", "\n"}
Separators == Whitespace \cup {","}

_NOTE_NAMES ==
  << <<"C">>, <<"C", "#">>, <<"D">>, <<"D", "#">>, <<"E">>, <<"F">>,
     <<"F", "#">>, <<"G">>, <<"G", "#">>, <<"A">>, <<"A", "#">>, <<"B">> >>

Digit == <<"0", "1", "2", "3", "4", "5", "6", "7", "8", "9">>

\* str(k) for the octaves -1..9 of the note table
IntStr(k) == IF k < 0 THEN <<"-", Digit[(-k) + 1]>> ELSE <<Digit[k + 1]>>

\* (mutant) octave numbers of the convention in which note 60 is C3
NoteKey_MiddleC3(n) == _NOTE_NAMES[(n % 12) + 1] \o IntStr((n \div 12) - 2)

\* f"{_NOTE_NAMES[n % 12]}{(n // 12) - 1}"
NoteKey(n) == _NOTE_NAMES[(n % 12) + 1] \o IntStr((n \div 12) - 1)

\* NOTE_TO_NUM.get(name): the note number, or -1 for None
NOTE_TO_NUM(name) ==
  IF \E n \in 0..127 : NoteKey(n) = name
  THEN CHOOSE n \in 0..127 : NoteKey(n) = name
  ELSE -1

\* ------------------------------------------------------------ token parsing
\* data.decode("utf-8", errors="ignore")
Decode(bytes) == SelectSeq(bytes, LAMBDA c : c # BAD)

Min(S) == CHOOSE x \in S : \A y \in S : x <= y
Max(S) == CHOOSE x \in S : \A y \in S : y <= x

\* str.strip(): what lies between the first and the last character that is
\* not whitespace
Strip(s) ==
  LET keep == {i \in 1..Len(s) : s[i] \notin Whitespace}
  IN  IF keep = {} THEN <<>> ELSE SubSeq(s, Min(keep), Max(keep))

\* re.split(r"[,\s]+", text)[0]: the text before the first separator
SplitFirst(s) ==
  LET seps == {i \in 1..Len(s) : s[i] \in Separators}
  IN  IF seps = {} THEN s ELSE SubSeq(s, 1, Min(seps) - 1)

\* lines 335-337: the token a received payload yields (<<>> for none)
FirstToken(bytes) ==
  LET text == Strip(Decode(bytes))
  IN  IF text # <<>> THEN SplitFirst(text) ELSE <<>>

\* ----------------------------------------------------- catalog and healing
\* Port names are sequences of one-character strings over a small alphabet
\* that stands for the kinds of character the code tells apart:
\*   "a" "b" "A" "B"  ASCII letters (casefold lowers "A" and "B");
\*   "M"  a mojibake lead such as U+00C3, a member of _BAD_HINTS: cp1252 and
\*        latin-1 encode it as the byte C3, mac_roman as CC, both of which
\*        start a two-byte UTF-8 sequence; casefold gives "m";
\*   "c"  U+00A9, encoded as A9 by all three, a UTF-8 continuation byte;
\*   "e"  U+00E9, what C3 A9 decodes to;   "u"  U+0329, what CC A9 decodes to.
_BAD_HINTS == {"M"}
Ascii == {"a", "b", "A", "B"}
Encodings == <<"cp1252", "mac_roman", "latin-1">>

Fold(c) == IF c = "A" THEN "a" ELSE IF c = "B" THEN "b" ELSE IF c = "M" THEN "m" ELSE c

\* _norm: NFKC (nothing to do on this alphabet) and casefold
_norm(s) == [i \in 1..Len(s) |-> Fold(s[i])]

\* s.encode(enc, "strict") followed by .decode("utf-8", "strict") succeeds:
\* every byte is ASCII or belongs to a lead/continuation pair
Decodable(s) ==
  \A i \in 1..Len(s) :
    \/ s[i] \in Ascii
    \/ s[i] = "M" /\ i < Len(s) /\ s[i + 1] = "c"
    \/ s[i] = "c" /\ i > 1 /\ s[i - 1] = "M"

\* the string that round trip gives under enc
Redecode(enc, s) ==
  LET lead == IF enc = "mac_roman" THEN "u" ELSE "e"
      m == [i \in 1..Len(s) |-> IF s[i] = "M" THEN lead ELSE s[i]]
  IN  SelectSeq(m, LAMBDA ch : ch # "c")

\* "dedup, preserve order"
RECURSIVE Dedup(_)
Dedup(q) ==
  IF q = <<>> THEN <<>>
  ELSE LET front == SubSeq(q, 1, Len(q) - 1)
       IN  IF \E j \in 1..Len(front) : front[j] = q[Len(q)]
           THEN Dedup(front)
           ELSE Append(Dedup(front), q[Len(q)])

_variants_from_mojibake(s) ==
  LET cands == IF Decodable(s)
               THEN [k \in 1..Len(Encodings) |-> Redecode(Encodings[k], s)]
               ELSE <<>>
  IN  Dedup(SelectSeq(cands, LAMBDA cand : cand # s))

_looks_mojibake(s) == \E i \in 1..Len(s) : s[i] \in _BAD_HINTS

\* no character of the alphabet is CJK or Kana, so the preference loop of
\* lines 116-118 returns nothing and the first fix is taken
_port_display(orig) ==
  IF _looks_mojibake(orig) /\ _variants_from_mojibake(orig) # <<>>
  THEN _variants_from_mojibake(orig)[1]
  ELSE orig

_record_for_port(orig) ==
  LET alts == IF _looks_mojibake(orig) THEN _variants_from_mojibake(orig) ELSE <<>>
  IN  [orig |-> orig, alts |-> alts,
       nrms |-> {_norm(orig)} \cup {_norm(alts[i]) : i \in 1..Len(alts)},
       disp |-> _port_display(orig)]

\* nd in n
Contains(n, nd) ==
  \E i \in 0..(Len(n) - Len(nd)) : SubSeq(n, i + 1, i + Len(nd)) = nd

_filter_by_name(recs, needle) ==
  IF needle = <<>>
  THEN recs
  ELSE SelectSeq(recs, LAMBDA r : \E n \in r.nrms : Contains(n, _norm(needle)))

\* Patterns are literals with an optional leading "^"; "(" stands for a
\* pattern re.compile rejects (re.error).
Compiles(pattern) == \A i \in 1..Len(pattern) : pattern[i] # "("

\* rx.search(n) for rx = re.compile(pattern, re.IGNORECASE)
Search(pattern, n) ==
  IF pattern[1] = "^"
  THEN /\ Len(pattern) - 1 <= Len(n)
       /\ _norm(SubSeq(n, 1, Len(pattern) - 1)) = _norm(Tail(pattern))
  ELSE Contains(_norm(n), _norm(pattern))

\* the records kept (pattern compiles)
_filter_by_regex(recs, pattern) ==
  IF pattern = <<>>
  THEN recs
  ELSE SelectSeq(recs, LAMBDA r : \E n \in r.nrms : Search(pattern, n))

\* one filter of config.yaml (midi.device or midi.port): whether it is a
\* mapping, and its name and regex (<<>> when absent or empty)
FilterRaises(f) == f.dict /\ f.name = <<>> /\ f.regex # <<>> /\ ~Compiles(f.regex)

\* lines 187-191 (device) and 194-198 (port)
ApplyFilter(recs, f) ==
  IF ~f.dict THEN recs
  ELSE IF f.name # <<>> THEN _filter_by_name(recs, f.name)
  ELSE IF f.regex # <<>> THEN _filter_by_regex(recs, f.regex)
  ELSE recs

Disps(recs) == [i \in 1..Len(recs) |-> recs[i].disp]

\* _resolve_port(cfg) over the enumerated ports: raised when re.compile
\* raises out of it, else found (a name is returned) with name, matched, all
_resolve_port(ports, cfg) ==
  LET recs == [i \in 1..Len(ports) |-> _record_for_port(ports[i])]
      recs2 == ApplyFilter(recs, cfg.dev)
      matched == ApplyFilter(recs2, cfg.por)
  IN  IF FilterRaises(cfg.dev) \/ FilterRaises(cfg.por)
      THEN [raised |-> TRUE, found |-> FALSE, name |-> <<>>, matched |-> <<>>, all |-> <<>>]
      ELSE IF Len(matched) = 1
      THEN [raised |-> FALSE, found |-> TRUE, name |-> matched[1].orig,
            matched |-> <<matched[1].disp>>, all |-> Disps(recs)]
      ELSE [raised |-> FALSE, found |-> FALSE, name |-> <<>>,
            matched |-> Disps(matched), all |-> Disps(recs)]

\* ------------------------------------------------------------------ config
\* values of midi.channel in config.yaml: absent; null; a string that is no
\* number; a string of digits; an integer; a float, given in tenths (25 is
\* 2.5); an infinite float
CfgChannels ==
  { [kind |-> "absent", val |-> 0], [kind |-> "null", val |-> 0],
    [kind |-> "text", val |-> 0], [kind |-> "inf", val |-> 0] }
    \cup {[kind |-> "int", val |-> k] : k \in (-MaxChannelInput)..MaxChannelInput}
    \cup {[kind |-> "digits", val |-> k] : k \in 0..MaxChannelInput}
    \cup {[kind |-> "float", val |-> t] : t \in (-MaxChannelInput)..(10 * MaxChannelInput)}

\* ------------------------------------------------------------------- scopes
\* What a specification explores: the processes that are launched, the
\* configured channels, and how often the environment acts.
\* enumerated ports and filters for which resolution finds one port, finds
\* two, and raises
ResolveSamples ==
  LET none == [dict |-> TRUE, name |-> <<>>, regex |-> <<>>]
  IN  { [ports |-> << <<"M", "c">>, <<"a">> >>,
         cfg |-> [dev |-> none, por |-> [dict |-> TRUE, name |-> <<"e">>, regex |-> <<>>]]],
        [ports |-> << <<"a">>, <<"A", "b">> >>,
         cfg |-> [dev |-> none, por |-> [dict |-> TRUE, name |-> <<>>, regex |-> <<"^", "a">>]]],
        [ports |-> << <<"a">> >>,
         cfg |-> [dev |-> none, por |-> [dict |-> TRUE, name |-> <<>>, regex |-> <<"(">>]]] }

RaceScope ==
  [procs |-> Procs, chans |-> {[kind |-> "int", val |-> 10]}, resolves |-> ResolveSamples,
   accepts |-> RaceAccepts, bursts |-> RaceBursts, plants |-> MaxPlants,
   fails |-> MaxAcceptFails]

\* (serving is explored with the default channel and with a clamped one)
ServeScope ==
  [procs |-> {1},
   chans |-> {c \in CfgChannels : c.kind = "absent" \/ (c.kind = "int" /\ c.val = 17)},
   resolves |-> ResolveSamples,
   accepts |-> ServeAccepts, bursts |-> ServeBursts, plants |-> MaxPlants,
   fails |-> MaxAcceptFails]

LiveScope == [RaceScope EXCEPT !.procs = {1}, !.fails = LiveFails]

\* int(x) raises for None, for a string that is no number and for an
\* infinite float
IntRaises(c) == c.kind \in {"null", "text", "inf"}

\* int(x) otherwise: a float is truncated toward zero
IntOf(c) ==
  IF c.kind = "float"
  THEN IF c.val >= 0 THEN c.val \div 10 ELSE -((-c.val) \div 10)
  ELSE c.val

\* (mutant) the channel is not clamped from above
_channel_from_config_NoUpperClamp(c) ==
  LET ch == IF c.kind = "absent" \/ IntRaises(c) THEN 1 ELSE IntOf(c)
  IN  IF ch < 1 THEN 1 ELSE ch

\* _channel_from_config
_channel_from_config(c) ==
  LET ch == IF c.kind = "absent" \/ IntRaises(c) THEN 1 ELSE IntOf(c)
  IN  IF ch < 1 THEN 1 ELSE IF ch > 16 THEN 16 ELSE ch

\* main lines 394-398: the status bytes for channel ch
StatusBytes(ch) == [on |-> NOTE_ON_BASE + (ch - 1), off |-> NOTE_OFF_BASE + (ch - 1)]

\* ------------------------------------------------------------------- state
VARIABLES
  fs,          \* the entry at SOCK_PATH
  pc,          \* pc[p][t]: where thread t of process p is
  mode,        \* mode[p]: "default", "check" or "list"
  exit,        \* exit[p]: the process's exit status, -1 while it has none
  thrExit,     \* thrExit[p]: the status of a sys.exit raised on the server thread
  midiout,     \* midiout[p]: _MIDIOUT: "none", "open", or "closed" (port closed, not yet None)
  status,      \* status[p]: [on, off]: _STATUS_ON and _STATUS_OFF
  sock,        \* sock[p]: the server socket s: "none", "created", "bound", "listening", "closed"
  backlog,     \* backlog[p]: connections pending on p's listening socket
  cur,         \* cur[p]: the connection p's server thread is handling
  token,       \* token[p]: the token of the payload recv returned
  note,        \* note[p]: n inside _send_note
  wire,        \* wire[p]: the events p has sent to the output device
  done,        \* done[p]: the connections p has closed, each with its outcome
  accepted,    \* accepted[p]: the connections p has accepted, in order
  nArrivals,   \* connections made to the endpoint so far (the next one's id - 1)
  nConnects,   \* times clients have connected so far
  nPlants,     \* symlinks planted so far
  nAcceptFails, \* nAcceptFails[p]: times accept has raised on p's server thread
  call,        \* the arguments of the function or client run under study (<<>>: none)
  ret          \* what it returned (<<>>: nothing yet)

\* the state of the server processes and of the endpoint
serverVars ==
  <<fs, pc, mode, exit, thrExit, midiout, status, sock, backlog, cur, token,
    note, wire, done, accepted, nArrivals, nConnects, nPlants, nAcceptFails>>

vars == <<serverVars, call, ret>>

NoEntry == [kind |-> "none", ino |-> 0, tgt |-> "-"]
NoConn == [kind |-> "none", id |-> 0, reply |-> <<>>]

\* Payloads a client may have written by the time recv returns
Payloads ==
  { <<"C", "#", "4", "\n">>,
    <<" ", "D", "4", ",", "C", "#", "4", "\n">>,
    <<"H", "2", "\n">>,
    <<",", "C", "#", "4">>,
    <<BAD, " ", "\n">> }

InitServer ==
  /\ fs \in { NoEntry,
              [kind |-> "file", ino |-> 0, tgt |-> "-"],
              [kind |-> "dir", ino |-> 0, tgt |-> "-"],
              [kind |-> "symlink", ino |-> 0, tgt |-> "dangling"],
              [kind |-> "symlink", ino |-> 0, tgt |-> "file"] }
  /\ pc = [p \in Procs |-> [main |-> "off", srv |-> "unstarted"]]
  /\ mode = [p \in Procs |-> "default"]
  /\ exit = [p \in Procs |-> -1]
  /\ thrExit = [p \in Procs |-> -1]
  /\ midiout = [p \in Procs |-> "none"]
  /\ status = [p \in Procs |-> [on |-> NOTE_ON_BASE, off |-> NOTE_OFF_BASE]]
  /\ sock = [p \in Procs |-> "none"]
  /\ backlog = [p \in Procs |-> <<>>]
  /\ cur = [p \in Procs |-> NoConn]
  /\ token = [p \in Procs |-> <<>>]
  /\ note = [p \in Procs |-> -1]
  /\ wire = [p \in Procs |-> <<>>]
  /\ done = [p \in Procs |-> <<>>]
  /\ accepted = [p \in Procs |-> <<>>]
  /\ nArrivals = 0
  /\ nConnects = 0
  /\ nPlants = 0
  /\ nAcceptFails = [p \in Procs |-> 0]

Init == InitServer /\ call = <<>> /\ ret = <<>>


\* ----------------------------------------------------------- path queries
\* os.path.islink(SOCK_PATH)
IsLink == fs.kind = "symlink"

\* os.path.exists(SOCK_PATH): follows a symbolic link
PathExists ==
  \/ fs.kind \in {"file", "dir", "sock"}
  \/ fs.kind = "symlink" /\ fs.tgt # "dangling"

\* connect(SOCK_PATH) succeeds: a socket file whose socket is listening with
\* room in its backlog
Connectable ==
  /\ fs.kind = "sock"
  /\ sock[fs.ino] = "listening"
  /\ Len(backlog[fs.ino]) < LISTEN_BACKLOG

\* os.remove(SOCK_PATH) succeeds: there is an entry and it is no directory
Removable == fs.kind \in {"file", "sock", "symlink"}

Alive(p) == pc[p].main \notin {"off", "exited"}

\* ------------------------------------------------------------ control flow
Goto(p, t, l) == pc' = [pc EXCEPT ![p][t] = l]

\* sys.exit(st) raised on thread t of process p, bl being the backlogs after
\* the step's own effect.  On the main thread the process ends and its
\* sockets are closed with it; on the server thread SystemExit ends that
\* thread only, and its local socket s is dropped.
SysExit(p, t, st, bl) ==
  /\ sock' = [sock EXCEPT ![p] = IF @ = "none" THEN "none" ELSE "closed"]
  /\ backlog' = [bl EXCEPT ![p] = <<>>]
  /\ IF t = "main"
     THEN /\ pc' = [pc EXCEPT ![p] =
                      [main |-> "exited",
                       srv |-> IF pc[p].srv = "unstarted" THEN "unstarted" ELSE "killed"]]
          /\ exit' = [exit EXCEPT ![p] = st]
          /\ cur' = [cur EXCEPT ![p] = NoConn]
          /\ token' = [token EXCEPT ![p] = <<>>]
          /\ note' = [note EXCEPT ![p] = -1]
          /\ UNCHANGED thrExit
     ELSE /\ pc' = [pc EXCEPT ![p].srv = "dead"]
          /\ thrExit' = [thrExit EXCEPT ![p] = st]
          /\ UNCHANGED <<exit, cur, token, note>>

\* a step that only moves thread t of p to l
Step(p, t, l) ==
  /\ Goto(p, t, l)
  /\ UNCHANGED <<exit, thrExit, sock, backlog, cur, token, note>>

\* _abort_if_sock_symlink, then on to l
_abort_if_sock_symlink(p, t, l) ==
  /\ IF IsLink THEN SysExit(p, t, 1, backlog) ELSE Step(p, t, l)
  /\ UNCHANGED <<fs, mode, midiout, status, wire, done, accepted, nArrivals, nConnects, nPlants>>
  /\ UNCHANGED <<nAcceptFails, call, ret>>

\* os.remove(SOCK_PATH) with its failure swallowed
Remove == fs' = IF Removable THEN NoEntry ELSE fs

\* ------------------------------------------- _ensure_singleton_sock_or_exit
\* where thread t goes on after the guard: main() loads the configuration,
\* _socket_server() creates its socket
AfterGuard(t) == IF t = "main" THEN "configure" ELSE "recheck"

\* line 278
GuardIslink(p, t) ==
  /\ pc[p][t] = "g_islink"
  /\ _abort_if_sock_symlink(p, t, "g_exists")

\* line 279
GuardExists(p, t) ==
  /\ pc[p][t] = "g_exists"
  /\ \/ PathExists /\ Step(p, t, "g_probe")
     \/ ~PathExists /\ Step(p, t, AfterGuard(t))
  /\ UNCHANGED <<fs, mode, midiout, status, wire, done, accepted, nArrivals, nConnects, nPlants>>
  /\ UNCHANGED <<nAcceptFails, call, ret>>

\* lines 280-286: the probe connect; on success close and sys.exit(0)
GuardProbe(p, t) ==
  /\ pc[p][t] = "g_probe"
  /\ IF Connectable
     THEN /\ SysExit(p, t, 0,
                     [backlog EXCEPT ![fs.ino] =
                        Append(@, [kind |-> "probe", id |-> nArrivals + 1, reply |-> <<>>])])
          /\ nArrivals' = nArrivals + 1
     ELSE /\ Step(p, t, "g_remove")
          /\ UNCHANGED nArrivals
  /\ UNCHANGED <<fs, mode, midiout, status, wire, done, accepted, nConnects, nPlants>>
  /\ UNCHANGED <<nAcceptFails, call, ret>>

\* (mutant) the stale entry is left in place
GuardRemove_NoUnlink(p, t) ==
  /\ pc[p][t] = "g_remove"
  /\ Step(p, t, AfterGuard(t))
  /\ UNCHANGED <<fs, mode, midiout, status, wire, done, accepted, nArrivals, nConnects, nPlants>>
  /\ UNCHANGED <<nAcceptFails, call, ret>>

\* lines 287-290: os.remove, its failure swallowed
GuardRemove(p, t) ==
  /\ pc[p][t] = "g_remove"
  /\ Remove
  /\ Step(p, t, AfterGuard(t))
  /\ UNCHANGED <<mode, midiout, status, wire, done, accepted, nArrivals, nConnects, nPlants>>
  /\ UNCHANGED <<nAcceptFails, call, ret>>

\* -------------------------------------------------------------------- main
\* lines 376-387: the process is launched; --list prints and exits, --check
\* skips the guard
Start(p, sc) ==
  /\ p \in sc.procs
  /\ pc[p].main = "off"
  /\ \E m \in {"default", "check", "list"} :
       /\ mode' = [mode EXCEPT ![p] = m]
       /\ IF m = "list"
          THEN SysExit(p, "main", 0, backlog)
          ELSE Step(p, "main", IF m = "check" THEN "configure" ELSE "g_islink")
  /\ UNCHANGED <<fs, midiout, status, wire, done, accepted, nArrivals, nConnects, nPlants>>
  /\ UNCHANGED <<nAcceptFails, call, ret>>

\* lines 390-403 for a configuration that loaded: c is its midi.channel, rin
\* the enumerated ports and its filters.  re.error out of _resolve_port is
\* caught nowhere: the interpreter prints the traceback and exits 1.  No name
\* returned: _exit_with_selection_error exits 2.  Otherwise the status bytes
\* are set, and check mode prints and exits 0.
ConfigureWith(p, rin, c) ==
  /\ pc[p].main = "configure"
  /\ LET r == _resolve_port(rin.ports, rin.cfg)
     IN  IF r.raised
         THEN SysExit(p, "main", 1, backlog) /\ UNCHANGED status
         ELSE IF ~r.found
         THEN SysExit(p, "main", 2, backlog) /\ UNCHANGED status
         ELSE /\ status' = [status EXCEPT ![p] = StatusBytes(_channel_from_config(c))]
              /\ IF mode[p] = "check"
                 THEN SysExit(p, "main", 0, backlog)
                 ELSE Step(p, "main", "open")
  /\ UNCHANGED <<fs, mode, midiout, wire, done, accepted, nArrivals, nConnects, nPlants>>
  /\ UNCHANGED <<nAcceptFails, call, ret>>

\* lines 389-403: load config.yaml (missing or invalid: exit 2), then resolve
Configure(p, sc) ==
  \/ /\ pc[p].main = "configure"                   \* _load_config fails
     /\ SysExit(p, "main", 2, backlog)
     /\ UNCHANGED <<fs, mode, midiout, status, wire, done, accepted, nArrivals,
                    nConnects, nPlants, nAcceptFails, call, ret>>
  \/ \E rin \in sc.resolves : \E c \in sc.chans : ConfigureWith(p, rin, c)

\* lines 405-408: _open_midi_out; failure exits 1
OpenMidi(p) ==
  /\ pc[p].main = "open"
  /\ \/ /\ midiout' = [midiout EXCEPT ![p] = "open"]
        /\ Step(p, "main", "spawn")
     \/ /\ UNCHANGED midiout
        /\ SysExit(p, "main", 1, backlog)
  /\ UNCHANGED <<fs, mode, status, wire, done, accepted, nArrivals, nConnects, nPlants>>
  /\ UNCHANGED <<nAcceptFails, call, ret>>

\* lines 410-415: start the server thread, run the menu-bar app
Spawn(p) ==
  /\ pc[p].main = "spawn"
  /\ pc' = [pc EXCEPT ![p] = [main |-> "ui", srv |-> "g_islink"]]
  /\ UNCHANGED <<fs, mode, exit, thrExit, midiout, status, sock, backlog, cur, token,
                 note, wire, done, accepted, nArrivals, nConnects, nPlants>>
  /\ UNCHANGED <<nAcceptFails, call, ret>>

\* ----------------------------------------------------------- _quit (Quit)
\* line 353
QuitExists(p) ==
  /\ pc[p].main \in {"ui"}
  /\ Step(p, "main", IF PathExists THEN "q_remove" ELSE "q_close")
  /\ UNCHANGED <<fs, mode, midiout, status, wire, done, accepted, nArrivals, nConnects, nPlants>>
  /\ UNCHANGED <<nAcceptFails, call, ret>>

\* line 354, its failure swallowed
QuitRemove(p) ==
  /\ pc[p].main = "q_remove"
  /\ Remove
  /\ Step(p, "main", "q_close")
  /\ UNCHANGED <<mode, midiout, status, wire, done, accepted, nArrivals, nConnects, nPlants>>
  /\ UNCHANGED <<nAcceptFails, call, ret>>

\* lines 241-245 of _close_midi_out, called from _quit
QuitClosePort(p) ==
  /\ pc[p].main = "q_close"
  /\ IF midiout[p] = "none"
     THEN Step(p, "main", "q_exit") /\ UNCHANGED midiout
     ELSE Step(p, "main", "q_forget") /\ midiout' = [midiout EXCEPT ![p] = "closed"]
  /\ UNCHANGED <<fs, mode, status, wire, done, accepted, nArrivals, nConnects, nPlants>>
  /\ UNCHANGED <<nAcceptFails, call, ret>>

\* line 246
QuitForget(p) ==
  /\ pc[p].main = "q_forget"
  /\ midiout' = [midiout EXCEPT ![p] = "none"]
  /\ Step(p, "main", "q_exit")
  /\ UNCHANGED <<fs, mode, status, wire, done, accepted, nArrivals, nConnects, nPlants>>
  /\ UNCHANGED <<nAcceptFails, call, ret>>

\* line 358: rumps.quit_application ends the process
QuitExit(p) ==
  /\ pc[p].main = "q_exit"
  /\ SysExit(p, "main", 0, backlog)
  /\ UNCHANGED <<fs, mode, midiout, status, wire, done, accepted, nArrivals, nConnects, nPlants>>
  /\ UNCHANGED <<nAcceptFails, call, ret>>


\* --------------------------------------------------------- _socket_server
\* lines 296-298: create the socket, re-check for a symlink just before bind
Recheck(p) ==
  /\ pc[p].srv = "recheck"
  /\ _abort_if_sock_symlink(p, "srv", "bind")

\* line 299: bind fails when any entry is at the path (lines 301-303)
Bind(p) ==
  /\ pc[p].srv = "bind"
  /\ IF fs.kind = "none"
     THEN /\ fs' = [kind |-> "sock", ino |-> p, tgt |-> "-"]
          /\ sock' = [sock EXCEPT ![p] = "bound"]
          /\ Goto(p, "srv", "chmod")
          /\ UNCHANGED <<exit, thrExit, backlog, cur, token, note>>
     ELSE /\ SysExit(p, "srv", 1, backlog)
          /\ UNCHANGED fs
  /\ UNCHANGED <<mode, midiout, status, wire, done, accepted, nArrivals, nConnects, nPlants>>
  /\ UNCHANGED <<nAcceptFails, call, ret>>

\* line 300: chmod of the path fails when nothing is there any more (lines 301-303)
Chmod(p) ==
  /\ pc[p].srv = "chmod"
  /\ IF PathExists THEN Step(p, "srv", "listen") ELSE SysExit(p, "srv", 1, backlog)
  /\ UNCHANGED <<fs, mode, midiout, status, wire, done, accepted, nArrivals, nConnects, nPlants>>
  /\ UNCHANGED <<nAcceptFails, call, ret>>

\* line 305
Listen(p) ==
  /\ pc[p].srv = "listen"
  /\ sock' = [sock EXCEPT ![p] = "listening"]
  /\ Goto(p, "srv", "accept")
  /\ UNCHANGED <<fs, mode, exit, thrExit, midiout, status, backlog, cur, token, note,
                 wire, done, accepted, nArrivals, nConnects, nPlants>>
  /\ UNCHANGED <<nAcceptFails, call, ret>>

\* lines 308-321: accept takes the oldest pending connection and gives it
\* the 1 s receive deadline.  settimeout(1.0) is called with a constant on a
\* descriptor only this thread holds, so the handler of lines 320-321 has no
\* input that reaches it and the deadline is always set.
Accept(p, sc) ==
  /\ pc[p].srv = "accept"
  /\ backlog[p] # <<>>
  /\ Len(accepted[p]) < sc.accepts
  /\ cur' = [cur EXCEPT ![p] = Head(backlog[p])]
  /\ backlog' = [backlog EXCEPT ![p] = Tail(@)]
  /\ accepted' = [accepted EXCEPT ![p] = Append(@, Head(backlog[p]).id)]
  /\ Goto(p, "srv", "recv")
  /\ UNCHANGED <<fs, mode, exit, thrExit, midiout, status, sock, token, note, wire, done,
                 nArrivals, nConnects, nPlants>>
  /\ UNCHANGED <<nAcceptFails, call, ret>>

\* (mutant) the exception of accept is not caught and ends the server thread
AcceptFail_EndsThread(p, sc) ==
  /\ pc[p].srv = "accept"
  /\ nAcceptFails[p] < sc.fails
  /\ nAcceptFails' = [nAcceptFails EXCEPT ![p] = @ + 1]
  /\ pc' = [pc EXCEPT ![p].srv = "dead"]
  /\ UNCHANGED <<fs, mode, exit, thrExit, midiout, status, sock, backlog, cur, token,
                 note, wire, done, accepted, nArrivals, nConnects, nPlants, call, ret>>

\* lines 311-314: accept raises (out of descriptors, interrupted, ...); the
\* handler sleeps 50 ms and goes round the loop.  The pending connections
\* stay queued.
AcceptFail(p, sc) ==
  /\ pc[p].srv = "accept"
  /\ nAcceptFails[p] < sc.fails
  /\ nAcceptFails' = [nAcceptFails EXCEPT ![p] = @ + 1]
  /\ UNCHANGED <<fs, pc, mode, exit, thrExit, midiout, status, sock, backlog, cur, token,
                 note, wire, done, accepted, nArrivals, nConnects, nPlants, call, ret>>

\* leaving the "with conn:" block closes the connection; the loop goes on
CloseConn(p, outcome) ==
  /\ cur' = [cur EXCEPT ![p] = NoConn]
  /\ done' = [done EXCEPT ![p] = Append(@, [id |-> cur[p].id, r |-> outcome])]
  /\ token' = [token EXCEPT ![p] = <<>>]
  /\ note' = [note EXCEPT ![p] = -1]
  /\ Goto(p, "srv", "accept")

\* what recv(1024) can return on connection c within the deadline: a probe
\* was closed by its sender at once; a client has written a payload, or
\* nothing, or has closed, or the read fails
RecvResults(c) ==
  IF c.kind = "probe"
  THEN {[r |-> "empty", bytes |-> <<>>]}
  ELSE {[r |-> "timeout", bytes |-> <<>>], [r |-> "empty", bytes |-> <<>>],
        [r |-> "error", bytes |-> <<>>]}
       \cup {[r |-> "data", bytes |-> b] : b \in Payloads}

\* (mutant) a read error is not caught and ends the server thread
Recv_ErrorEscapes(p) ==
  /\ pc[p].srv = "recv"
  /\ \E res \in RecvResults(cur[p]) :
       IF res.r = "data"
       THEN /\ token' = [token EXCEPT ![p] = FirstToken(res.bytes)]
            /\ Goto(p, "srv", "dispatch")
            /\ UNCHANGED <<cur, done, note>>
       ELSE IF res.r = "error"
       THEN /\ Goto(p, "srv", "dead")
            /\ UNCHANGED <<cur, done, token, note>>
       ELSE CloseConn(p, res.r)
  /\ UNCHANGED <<fs, mode, exit, thrExit, midiout, status, sock, backlog, wire,
                 accepted, nArrivals, nConnects, nPlants>>
  /\ UNCHANGED <<nAcceptFails, call, ret>>

\* (mutant) a receive timeout tears the output handle down
Recv_TimeoutClosesHandle(p) ==
  /\ pc[p].srv = "recv"
  /\ \E res \in RecvResults(cur[p]) :
       /\ IF res.r = "data"
          THEN /\ token' = [token EXCEPT ![p] = FirstToken(res.bytes)]
               /\ Goto(p, "srv", "dispatch")
               /\ UNCHANGED <<cur, done, note>>
          ELSE CloseConn(p, res.r)
       /\ midiout' = IF res.r = "timeout" THEN [midiout EXCEPT ![p] = "none"] ELSE midiout
  /\ UNCHANGED <<fs, mode, exit, thrExit, status, sock, backlog, wire,
                 accepted, nArrivals, nConnects, nPlants>>
  /\ UNCHANGED <<nAcceptFails, call, ret>>

\* (mutant) a connection that timed out is put back to be read later
Recv_Requeue(p) ==
  /\ pc[p].srv = "recv"
  /\ \E res \in RecvResults(cur[p]) :
       IF res.r = "data"
       THEN /\ token' = [token EXCEPT ![p] = FirstToken(res.bytes)]
            /\ Goto(p, "srv", "dispatch")
            /\ UNCHANGED <<cur, done, note, backlog>>
       ELSE IF res.r = "timeout"
       THEN /\ backlog' = [backlog EXCEPT ![p] = Append(@, cur[p])]
            /\ cur' = [cur EXCEPT ![p] = NoConn]
            /\ Goto(p, "srv", "accept")
            /\ UNCHANGED <<done, token, note>>
       ELSE CloseConn(p, res.r) /\ UNCHANGED backlog
  /\ UNCHANGED <<fs, mode, exit, thrExit, midiout, status, sock, wire,
                 accepted, nArrivals, nConnects, nPlants>>
  /\ UNCHANGED <<nAcceptFails, call, ret>>

\* lines 316-337: recv within the deadline; a timeout, a read error or an
\* empty read close the connection, a payload is decoded, stripped and split
Recv(p) ==
  /\ pc[p].srv = "recv"
  /\ \E res \in RecvResults(cur[p]) :
       IF res.r = "data"
       THEN /\ token' = [token EXCEPT ![p] = FirstToken(res.bytes)]
            /\ Goto(p, "srv", "dispatch")
            /\ UNCHANGED <<cur, done, note>>
       ELSE CloseConn(p, res.r)
  /\ UNCHANGED <<fs, mode, exit, thrExit, midiout, status, sock, backlog, wire,
                 accepted, nArrivals, nConnects, nPlants>>
  /\ UNCHANGED <<nAcceptFails, call, ret>>

\* (mutant) _send_note opens the device again when the handle is None
Dispatch_Reopens(p) ==
  /\ pc[p].srv = "dispatch"
  /\ LET n == NOTE_TO_NUM(token[p])
     IN  IF token[p] = <<>>
         THEN CloseConn(p, "no_token") /\ UNCHANGED midiout
         ELSE IF n = -1
         THEN CloseConn(p, "not_a_note") /\ UNCHANGED midiout
         ELSE /\ note' = [note EXCEPT ![p] = n]
              /\ midiout' = [midiout EXCEPT ![p] = IF @ = "none" THEN "open" ELSE @]
              /\ Goto(p, "srv", "send_on")
              /\ UNCHANGED <<cur, done, token>>
  /\ UNCHANGED <<fs, mode, exit, thrExit, status, sock, backlog, wire,
                 accepted, nArrivals, nConnects, nPlants>>
  /\ UNCHANGED <<nAcceptFails, call, ret>>

\* (mutant) _send_note does not check the handle for None
Dispatch_NoHandleCheck(p) ==
  /\ pc[p].srv = "dispatch"
  /\ LET n == NOTE_TO_NUM(token[p])
     IN  IF token[p] = <<>>
         THEN CloseConn(p, "no_token")
         ELSE IF n = -1
         THEN CloseConn(p, "not_a_note")
         ELSE /\ note' = [note EXCEPT ![p] = n]
              /\ Goto(p, "srv", "send_on")
              /\ UNCHANGED <<cur, done, token>>
  /\ UNCHANGED <<fs, mode, exit, thrExit, midiout, status, sock, backlog, wire,
                 accepted, nArrivals, nConnects, nPlants>>
  /\ UNCHANGED <<nAcceptFails, call, ret>>

\* lines 338-342 and 251-255: skip an empty token, look the token up, and return
\* without sending when it is no note or the handle is None
Dispatch(p) ==
  /\ pc[p].srv = "dispatch"
  /\ LET n == NOTE_TO_NUM(token[p])
     IN  IF token[p] = <<>>
         THEN CloseConn(p, "no_token")
         ELSE IF n = -1
         THEN CloseConn(p, "not_a_note")
         ELSE IF midiout[p] = "none"
         THEN CloseConn(p, "no_handle")
         ELSE /\ note' = [note EXCEPT ![p] = n]
              /\ Goto(p, "srv", "send_on")
              /\ UNCHANGED <<cur, done, token>>
  /\ UNCHANGED <<fs, mode, exit, thrExit, midiout, status, sock, backlog, wire,
                 accepted, nArrivals, nConnects, nPlants>>
  /\ UNCHANGED <<nAcceptFails, call, ret>>

\* (mutant) a failed send does not tear the handle down
SendMessage_KeepsHandle(p, msg, next) ==
  \/ /\ midiout[p] = "open"
     /\ wire' = [wire EXCEPT ![p] = Append(@, msg)]
     /\ UNCHANGED midiout
     /\ next
  \/ /\ midiout[p] = "closed"
     /\ UNCHANGED <<wire, midiout>>
     /\ next
  \/ /\ UNCHANGED <<wire, midiout>>
     /\ CloseConn(p, "send_failed")

\* _MIDIOUT.send_message(msg) and, when it raises, lines 260-262.  On an open
\* port the device may fail; on None the attribute access raises; on a port
\* Quit has closed but not yet forgotten the call raises or sends nothing.
\* next is where the thread goes after a send that did not raise.
SendMessage(p, msg, next) ==
  \/ /\ midiout[p] = "open"
     /\ wire' = [wire EXCEPT ![p] = Append(@, msg)]
     /\ UNCHANGED midiout
     /\ next
  \/ /\ midiout[p] = "closed"
     /\ UNCHANGED <<wire, midiout>>
     /\ next
  \/ /\ midiout' = [midiout EXCEPT ![p] = "none"]   \* raised: _close_midi_out
     /\ UNCHANGED wire
     /\ CloseConn(p, "send_failed")

\* line 257
SendOn(p) ==
  /\ pc[p].srv = "send_on"
  /\ SendMessage(p,
       [st |-> status[p].on, n |-> note[p], vel |-> VELOCITY_ON, conn |-> cur[p].id],
       Goto(p, "srv", "send_off") /\ UNCHANGED <<cur, done, token, note>>)
  /\ UNCHANGED <<fs, mode, exit, thrExit, status, sock, backlog, accepted, nArrivals,
                 nConnects, nPlants>>
  /\ UNCHANGED <<nAcceptFails, call, ret>>

\* lines 258-259: after the 50 ms hold
SendOff(p) ==
  /\ pc[p].srv = "send_off"
  /\ SendMessage(p,
       [st |-> status[p].off, n |-> note[p], vel |-> VELOCITY_OFF, conn |-> cur[p].id],
       CloseConn(p, "dispatched"))
  /\ UNCHANGED <<fs, mode, exit, thrExit, status, sock, backlog, accepted, nArrivals,
                 nConnects, nPlants>>
  /\ UNCHANGED <<nAcceptFails, call, ret>>

\* ------------------------------------------------------------- environment
\* k clients (send_note.py) connect to the endpoint back to back: one, or as
\* many as the backlog still takes
Clients(first, k) == [i \in 1..k |-> [kind |-> "client", id |-> first + i - 1, reply |-> <<>>]]

ClientConnect(sc) ==
  /\ nConnects < sc.bursts
  /\ Connectable
  /\ \E k \in {1, LISTEN_BACKLOG - Len(backlog[fs.ino])} :
       /\ backlog' = [backlog EXCEPT ![fs.ino] = @ \o Clients(nArrivals + 1, k)]
       /\ nArrivals' = nArrivals + k
  /\ nConnects' = nConnects + 1
  /\ UNCHANGED <<fs, pc, mode, exit, thrExit, midiout, status, sock, cur, token, note,
                 wire, done, accepted, nPlants>>
  /\ UNCHANGED <<nAcceptFails, call, ret>>

\* another local actor puts a symbolic link at the free endpoint path
PlantSymlink(sc) ==
  /\ nPlants < sc.plants
  /\ fs.kind = "none"
  /\ \E tgt \in {"dangling", "file"} : fs' = [kind |-> "symlink", ino |-> 0, tgt |-> tgt]
  /\ nPlants' = nPlants + 1
  /\ UNCHANGED <<pc, mode, exit, thrExit, midiout, status, sock, backlog, cur, token,
                 note, wire, done, accepted, nArrivals, nConnects>>
  /\ UNCHANGED <<nAcceptFails, call, ret>>

\* ------------------------------------------------------------------- system
Guard(p, t) ==
  GuardIslink(p, t) \/ GuardExists(p, t) \/ GuardProbe(p, t) \/ GuardRemove(p, t)

Main(p, sc) ==
  \/ Start(p, sc) \/ Guard(p, "main") \/ Configure(p, sc) \/ OpenMidi(p) \/ Spawn(p)
  \/ QuitExists(p) \/ QuitRemove(p) \/ QuitClosePort(p) \/ QuitForget(p) \/ QuitExit(p)

Server(p, sc) ==
  \/ Guard(p, "srv") \/ Recheck(p) \/ Bind(p) \/ Chmod(p) \/ Listen(p)
  \/ Accept(p, sc) \/ AcceptFail(p, sc) \/ Recv(p) \/ Dispatch(p) \/ SendOn(p) \/ SendOff(p)

NextIn(sc) ==
  \/ \E p \in Procs : Main(p, sc) \/ Server(p, sc)
  \/ ClientConnect(sc)
  \/ PlantSymlink(sc)

\* two instances racing for the endpoint, little traffic
Next == NextIn(RaceScope)
Spec == Init /\ [][Next]_vars

\* one instance serving traffic
NextServe == NextIn(ServeScope)
SpecServe == Init /\ [][NextServe]_vars

\* one instance started over a stale entry.  The scheduler runs every
\* runnable thread: the startup steps of main() and the steps of the server
\* thread are weakly fair; choosing Quit, launching, and what clients and
\* other local actors do are not.
Startup(p, sc) == Guard(p, "main") \/ Configure(p, sc) \/ OpenMidi(p) \/ Spawn(p)
InitLive == Init /\ fs.kind \in {"file", "dir"}
NextLive == NextIn(LiveScope)
SpecLive ==
  /\ InitLive
  /\ [][NextLive]_vars
  /\ \A p \in LiveScope.procs :
       WF_vars(Startup(p, LiveScope)) /\ WF_vars(Server(p, LiveScope))


\* ---------------------------------------------------------- _resolve_port
\* enumerated port names: plain, mixed case, mojibake that heals, mojibake
\* that heals only in part of the name, and a suspect name with no round trip
PortNames ==
  { <<"a">>, <<"A", "b">>, <<"M", "c">>, <<"M", "c", "b">>, <<"M", "a">> }

RECURSIVE SeqsUpTo(_, _)
SeqsUpTo(S, n) ==
  IF n = 0 THEN {<<>>}
  ELSE SeqsUpTo(S, n - 1)
         \cup {Append(q, x) : q \in {r \in SeqsUpTo(S, n - 1) : Len(r) = n - 1}, x \in S}

Catalogs == SeqsUpTo(PortNames, MaxPorts)

\* midi.device / midi.port: absent, not a mapping, a name, a regex, a regex
\* that does not compile, and a name together with such a regex
Filters ==
  { [dict |-> TRUE, name |-> <<>>, regex |-> <<>>],
    [dict |-> FALSE, name |-> <<>>, regex |-> <<>>],
    [dict |-> TRUE, name |-> <<"A">>, regex |-> <<>>],
    [dict |-> TRUE, name |-> <<"e">>, regex |-> <<>>],
    [dict |-> TRUE, name |-> <<"B">>, regex |-> <<>>],
    [dict |-> TRUE, name |-> <<>>, regex |-> <<"^", "a">>],
    [dict |-> TRUE, name |-> <<>>, regex |-> <<"B">>],
    [dict |-> TRUE, name |-> <<>>, regex |-> <<"(">>],
    [dict |-> TRUE, name |-> <<"b">>, regex |-> <<"(">>] }

ResolveCalls ==
  { [fn |-> "_resolve_port", ports |-> c, cfg |-> [dev |-> d, por |-> q]] :
      c \in Catalogs, d \in Filters, q \in Filters }

Called(fn) == call # <<>> /\ call[1].fn = fn

\* main line 390: port_name, matched_disps, all_disps = _resolve_port(cfg)
ResolveCall ==
  /\ Called("_resolve_port") /\ ret = <<>>
  /\ ret' = <<_resolve_port(call[1].ports, call[1].cfg)>>
  /\ UNCHANGED <<serverVars, call>>

InitResolve == InitServer /\ fs = NoEntry /\ call \in {<<c>> : c \in ResolveCalls} /\ ret = <<>>
SpecResolve == InitResolve /\ [][ResolveCall]_vars

\* --------------------------------------------------- _channel_from_config
ChannelCalls == {[fn |-> "_channel_from_config", channel |-> c] : c \in CfgChannels}

\* main lines 394-398: ch = _channel_from_config(cfg), then the status bytes
ChannelCall ==
  /\ Called("_channel_from_config") /\ ret = <<>>
  /\ LET ch == _channel_from_config(call[1].channel)
     IN  ret' = <<[ch |-> ch, on |-> StatusBytes(ch).on, off |-> StatusBytes(ch).off]>>
  /\ UNCHANGED <<serverVars, call>>

InitChannel == InitServer /\ fs = NoEntry /\ call \in {<<c>> : c \in ChannelCalls} /\ ret = <<>>
SpecChannel == InitChannel /\ [][ChannelCall]_vars

\* ------------------------------------------------------ send_note.py main
\* the characters of a reply: letters of both cases, blank, newline, a byte
\* that is no UTF-8, and a letter of no keyword
ReplyChars == {"O", "k", "E", "R", "r", " ", "\n", BAD, "x"}

\* str.lower()
Lower(s) ==
  [i \in 1..Len(s) |->
     IF s[i] = "O" THEN "o" ELSE IF s[i] = "E" THEN "e" ELSE IF s[i] = "R" THEN "r" ELSE s[i]]

\* str.startswith
StartsWith(s, pre) == Len(s) >= Len(pre) /\ SubSeq(s, 1, Len(pre)) = pre

\* what the client prints and the status it exits with
Report(kind, line, st) == [out |-> kind, line |-> line, status |-> st]

\* (mutant) a reply read that times out is reported as a failed read
send_note_main_TimeoutFails(env) ==
  IF ~env.arg THEN Report("ERR: usage", <<>>, 1)
  ELSE IF env.connect # "ok" THEN Report("ERR: connect failed", <<>>, 2)
  ELSE IF env.send # "ok" THEN Report("ERR: send failed", <<>>, 3)
  ELSE IF env.recv.r \in {"timeout", "error"} THEN Report("ERR: recv failed", <<>>, 4)
  ELSE LET line == Strip(Decode(env.recv.bytes))
       IN  IF line = <<>> THEN Report("SENT", <<>>, 0)
           ELSE IF StartsWith(Lower(line), <<"o", "k">>) THEN Report("OK", <<>>, 0)
           ELSE IF StartsWith(Lower(line), <<"e", "r", "r">>) THEN Report("line", line, 5)
           ELSE Report("line", line, 0)

\* send_note.py main, lines 19-97.  env says whether a note was given, how
\* connect, sendall and shutdown went (a failed shutdown is swallowed, line
\* 45), and what recv(256) did: timed out, raised, or returned bytes.
send_note_main(env) ==
  IF ~env.arg THEN Report("ERR: usage", <<>>, 1)
  ELSE IF env.connect # "ok" THEN Report("ERR: connect failed", <<>>, 2)
  ELSE IF env.send # "ok" THEN Report("ERR: send failed", <<>>, 3)
  ELSE IF env.recv.r = "timeout" THEN Report("SENT", <<>>, 0)
  ELSE IF env.recv.r = "error" THEN Report("ERR: recv failed", <<>>, 4)
  ELSE LET line == Strip(Decode(env.recv.bytes))
       IN  IF line = <<>> THEN Report("SENT", <<>>, 0)
           ELSE IF StartsWith(Lower(line), <<"o", "k">>) THEN Report("OK", <<>>, 0)
           ELSE IF StartsWith(Lower(line), <<"e", "r", "r">>) THEN Report("line", line, 5)
           ELSE Report("line", line, 0)

\* what recv(256) can do: time out, raise, or return the bytes the server
\* wrote before closing (none: b"")
ClientRecvs ==
  {[r |-> "timeout", bytes |-> <<>>], [r |-> "error", bytes |-> <<>>]}
    \cup {[r |-> "data", bytes |-> b] : b \in SeqsUpTo(ReplyChars, MaxReplyLen)}

ClientCalls ==
  [fn : {"send_note"}, arg : BOOLEAN, connect : {"ok", "fail"}, send : {"ok", "fail"},
   shutdown : {"ok", "fail"}, recv : ClientRecvs]

ClientRun ==
  /\ Called("send_note") /\ ret = <<>>
  /\ ret' = <<send_note_main(call[1])>>
  /\ UNCHANGED <<serverVars, call>>

InitClient == InitServer /\ fs = NoEntry /\ call \in {<<c>> : c \in ClientCalls} /\ ret = <<>>
SpecClient == InitClient /\ [][ClientRun]_vars

\* ============================================================== properties
\* process p holds a bound server socket and is not being quit
Owns(p) == pc[p].main = "ui" /\ sock[p] \in {"bound", "listening"}

\* process p is a live instance: it owns the entry at the path and runs its
\* accept loop, idle or handling a connection
HandlingPcs == {"recv", "dispatch", "send_on", "send_off"}
LiveInstance(p) ==
  /\ Alive(p)
  /\ fs.kind = "sock" /\ fs.ino = p
  /\ sock[p] = "listening"
  /\ pc[p].srv \in {"accept"} \cup HandlingPcs

\* C1: at no reachable state do two processes both hold a bound server
\* socket for the endpoint.
C1_SingleOwner == \A p, q \in Procs : p # q => ~(Owns(p) /\ Owns(q))

\* C2: a guard probe made while another instance is live ends the probing
\* process with exit status 0 and leaves the endpoint file as it is, on the
\* main thread and on the server thread alike.
C2_SecondExitsZero ==
  [][\A q \in Procs : \A t \in Threads :
       (GuardProbe(q, t) /\ \E p \in Procs \ {q} : LiveInstance(p))
         => (exit'[q] = 0 /\ fs' = fs)]_vars

\* C4: a symlink check (at guard entry or just before bind) that finds a
\* symbolic link ends the process with a failure status, and that process
\* never probes, removes or binds afterwards.
C4_SymlinkIsFatal ==
  [][\A p \in Procs : \A t \in Threads :
       (IsLink /\ (GuardIslink(p, t) \/ (t = "srv" /\ Recheck(p))))
         => (exit'[p] = 1 /\ ~Alive(p)')]_vars

\* C5: a failed bind ends the whole process with a non-zero exit status: no
\* process stays running without a listening endpoint.
C5_BindFailureIsFatal ==
  [][\A p \in Procs : (Bind(p) /\ fs.kind # "none") => (exit'[p] > 0 /\ ~Alive(p)')]_vars


\* p's server thread is in its accept loop on a listening socket
Listening(p) ==
  Alive(p) /\ sock[p] = "listening" /\ pc[p].srv \in {"accept"} \cup HandlingPcs

QuitPcs == {"q_remove", "q_close", "q_forget", "q_exit"}

\* what releases p from reaching the accept loop: the process has ended
\* (configuration did not resolve, the device did not open, Quit), Quit is
\* under way, or another actor has put an entry at the path
Excused(p) == exit[p] # -1 \/ pc[p].main \in QuitPcs \/ nPlants > 0

JustStarted(p) == pc[p].main = "g_islink" /\ mode[p] = "default"

\* C3 as stated: the guard removes any non-symlink entry with no listener
\* behind it, and the instance then reaches the listening accept loop.
C3_AnyStaleEntryRemoved ==
  /\ [][\A p \in Procs : \A t \in Threads :
          (GuardRemove(p, t) /\ fs.kind \in {"file", "dir"}) => fs' = NoEntry]_vars
  /\ \A p \in LiveScope.procs :
       (JustStarted(p) /\ fs.kind \in {"file", "dir"}) ~> (Listening(p) \/ Excused(p))

\* C3 (amended): the guard removes a stale entry that is no directory (a
\* file or a dead socket), and the instance then reaches the listening
\* accept loop unless configuration or the device fails, Quit is chosen, or
\* another actor occupies the path first.
C3_StaleFileRemovedThenListening ==
  /\ [][\A p \in Procs : \A t \in Threads :
          (GuardRemove(p, t) /\ fs.kind = "file") => fs' = NoEntry]_vars
  /\ \A p \in LiveScope.procs :
       (JustStarted(p) /\ fs.kind = "file") ~> (Listening(p) \/ Excused(p))

\* the instance listens on its own socket file where a stale entry was (every
\* run of SpecLive starts with one), nobody else having touched the path
C3_Witness ==
  \E p \in Procs :
    Listening(p) /\ fs = [kind |-> "sock", ino |-> p, tgt |-> "-"] /\ nPlants = 0


\* ------------------------------------------------------ connection handling
Outcomes ==
  {"timeout", "empty", "error", "no_token", "not_a_note", "no_handle",
   "send_failed", "dispatched"}

Ids(seq) == [i \in DOMAIN seq |-> seq[i].id]
OutcomesOf(p) == {done[p][i].r : i \in DOMAIN done[p]}

\* C6: once the server listens, every accepted connection gets exactly one
\* outcome and is closed, and no outcome ends the accept loop: while the
\* process lives the thread is at accept or handling the last accepted
\* connection, and the closed connections are exactly the accepted ones.
C6_EveryConnectionClosedLoopGoesOn ==
  \A p \in Procs :
    (Alive(p) /\ sock[p] = "listening") =>
      /\ pc[p].srv \in {"accept"} \cup HandlingPcs
      /\ \A i \in DOMAIN done[p] : done[p][i].r \in Outcomes
      /\ \A i, j \in DOMAIN accepted[p] : i # j => accepted[p][i] # accepted[p][j]
      /\ pc[p].srv = "accept" => (cur[p] = NoConn /\ Ids(done[p]) = accepted[p])
      /\ pc[p].srv \in HandlingPcs =>
           /\ accepted[p] # <<>>
           /\ cur[p].id = accepted[p][Len(accepted[p])]
           /\ Ids(done[p]) = SubSeq(accepted[p], 1, Len(accepted[p]) - 1)

\* the server is back at accept after connections that ended in a read
\* error, a timeout and a dispatch
C6_Witness ==
  \E p \in Procs :
    /\ Alive(p) /\ sock[p] = "listening" /\ pc[p].srv = "accept"
    /\ {"error", "timeout", "dispatched"} \subseteq OutcomesOf(p)

OnEvent(p, id, n) == [st |-> status[p].on, n |-> n, vel |-> VELOCITY_ON, conn |-> id]
OffEvent(p, id, n) == [st |-> status[p].off, n |-> n, vel |-> VELOCITY_OFF, conn |-> id]

\* connection id of p has both its events on the wire, the off right after the on
Emitted(p, id) ==
  \E k \in 1..(Len(wire[p]) - 1) : \E n \in 0..127 :
    wire[p][k] = OnEvent(p, id, n) /\ wire[p][k + 1] = OffEvent(p, id, n)

LastTimedOut(p) ==
  /\ done[p] # <<>>
  /\ done[p][Len(done[p])].r = "timeout"
  /\ Ids(done[p]) = accepted[p]

\* C7: a receive timeout closes the connection and changes nothing else (no
\* device event, handle and listening socket as before, thread back at
\* accept); a connection pending afterwards can be accepted, and a connection
\* dispatched after a timeout has its two events on the wire.
C7_TimeoutDropsOnlyThatConnection ==
  /\ [][\A p \in Procs :
          (Recv(p) /\ Len(done'[p]) = Len(done[p]) + 1
                   /\ done'[p][Len(done'[p])].r = "timeout")
            => /\ wire' = wire /\ midiout' = midiout /\ sock' = sock /\ backlog' = backlog
               /\ sock[p] = "listening"
               /\ pc'[p].srv = "accept" /\ cur'[p] = NoConn]_vars
  /\ [](\A p \in Procs :
          (Alive(p) /\ LastTimedOut(p) /\ backlog[p] # <<>>
             /\ Len(accepted[p]) < ServeScope.accepts)
            => ENABLED Accept(p, ServeScope))
  /\ [](\A p \in Procs : \A i, j \in DOMAIN done[p] :
          (pc[p].main = "ui" /\ i < j /\ done[p][i].r = "timeout"
             /\ done[p][j].r = "dispatched")
            => Emitted(p, done[p][j].id))

\* a connection timed out and a later one was dispatched
C7_Witness ==
  \E p \in Procs : \E i, j \in DOMAIN done[p] :
    /\ pc[p].main = "ui" /\ i < j
    /\ done[p][i].r = "timeout" /\ done[p][j].r = "dispatched"
    /\ Emitted(p, done[p][j].id)

IsOn(e) == e.st \in NOTE_ON_BASE..(NOTE_ON_BASE + 15) /\ e.vel = VELOCITY_ON
IsOff(e) == e.st \in NOTE_OFF_BASE..(NOTE_OFF_BASE + 15) /\ e.vel = VELOCITY_OFF

\* C8: the events a server sends are (on n, off n) pairs, the off on the
\* channel of its on, with at most one unpaired on at the end: every odd
\* event is a note-on and every even event the note-off of the event before.
C8_OnOffPairs ==
  \A p \in Procs : \A i \in DOMAIN wire[p] :
    IF i % 2 = 1
    THEN IsOn(wire[p][i])
    ELSE /\ IsOff(wire[p][i])
         /\ wire[p][i].n = wire[p][i - 1].n
         /\ wire[p][i].st - NOTE_OFF_BASE = wire[p][i - 1].st - NOTE_ON_BASE
         /\ wire[p][i].conn = wire[p][i - 1].conn

\* a pair, then an on whose off failed and closed the handle
C8_Witness ==
  \E p \in Procs :
    /\ pc[p].main = "ui" /\ midiout[p] = "none"
    /\ Len(wire[p]) = 3
    /\ done[p][Len(done[p])].r = "send_failed"

\* where connection id stands in p's order of acceptance (0: never accepted)
AcceptPos(p, id) ==
  IF \E k \in DOMAIN accepted[p] : accepted[p][k] = id
  THEN CHOOSE k \in DOMAIN accepted[p] :
         accepted[p][k] = id /\ \A m \in 1..(k - 1) : accepted[p][m] # id
  ELSE 0

\* C9: device events come in the order in which their connections were
\* accepted: an event of a connection accepted earlier is never sent after
\* an event of one accepted later.
C9_EventsInAcceptOrder ==
  \A p \in Procs : \A i, j \in DOMAIN wire[p] :
    i < j =>
      /\ AcceptPos(p, wire[p][i].conn) > 0
      /\ AcceptPos(p, wire[p][i].conn) <= AcceptPos(p, wire[p][j].conn)

\* two connections have both been dispatched
C9_Witness ==
  \E p \in Procs : \E i, j \in DOMAIN done[p] :
    /\ i < j
    /\ Emitted(p, done[p][i].id) /\ Emitted(p, done[p][j].id)

\* C10: dispatching a token that is no note, or any token while the handle
\* is None, sends no device event and no reply, raises nothing (the thread
\* is back at accept, nothing has exited), and leaves the handle and the
\* status bytes as they were.
C10_IgnoredTokenChangesNothing ==
  [][\A p \in Procs :
       (Dispatch(p) /\ token[p] # <<>>
          /\ (NOTE_TO_NUM(token[p]) = -1 \/ midiout[p] = "none"))
         => /\ wire' = wire /\ midiout' = midiout /\ status' = status
            /\ cur[p].reply = <<>>
            /\ pc'[p].srv = "accept"
            /\ exit' = exit /\ thrExit' = thrExit]_vars

\* the server is back at accept having ignored a token that is no note and
\* a note that came while the handle was None
C10_Witness ==
  \E p \in Procs :
    /\ Alive(p) /\ pc[p].srv = "accept"
    /\ {"not_a_note", "no_handle"} \subseteq OutcomesOf(p)


\* ------------------------------------------------------------ send failure
\* the step of p that has just closed a connection with outcome r
Closes(p, r) ==
  /\ Len(done'[p]) = Len(done[p]) + 1
  /\ done'[p][Len(done'[p])].r = r

\* the server thread of p has been started
Started(p) == pc[p].srv # "unstarted"

\* C11: a send that fails (on the note-on or the note-off) leaves the handle
\* None with the thread back at accept on its listening socket; and once the
\* thread runs with the handle None, the handle stays None (the device is
\* never opened again) and no event is sent to the device any more.
C11_SendFailureDropsHandleForGood ==
  /\ [][\A p \in Procs :
          ((SendOn(p) \/ SendOff(p)) /\ Closes(p, "send_failed"))
            => /\ midiout'[p] = "none"
               /\ pc'[p].srv = "accept" /\ cur'[p] = NoConn
               /\ sock'[p] = sock[p] /\ exit'[p] = exit[p] /\ thrExit'[p] = thrExit[p]]_vars
  /\ [][\A p \in Procs :
          (Started(p) /\ midiout[p] = "none")
            => (midiout'[p] = "none" /\ wire'[p] = wire[p])]_vars

\* after a failed send a later note arrived and was dropped, the server
\* being back at accept
C11_Witness ==
  \E p \in Procs : \E i, j \in DOMAIN done[p] :
    /\ pc[p].main = "ui" /\ pc[p].srv = "accept" /\ sock[p] = "listening"
    /\ i < j /\ done[p][i].r = "send_failed" /\ done[p][j].r = "no_handle"
    /\ midiout[p] = "none"


\* ------------------------------------------------------------- resolution
\* the records left by the device filter and then the port filter
Remaining(c) ==
  LET recs == [i \in 1..Len(c.ports) |-> _record_for_port(c.ports[i])]
  IN  ApplyFilter(ApplyFilter(recs, c.cfg.dev), c.cfg.por)

\* C12: for every catalog and filter configuration _resolve_port returns;
\* it returns a name exactly when one record remains, the name is then that
\* record's original string, an element of the enumerated list; otherwise it
\* returns no name, the display names of the remaining records and the
\* display names of the whole catalog.
C12_ResolveExactlyOne ==
  (Called("_resolve_port") /\ ret # <<>>) =>
    LET c == call[1]
        r == ret[1]
        rem == Remaining(c)
    IN  /\ ~r.raised
        /\ r.found <=> Len(rem) = 1
        /\ r.found =>
             /\ r.name = rem[1].orig
             /\ \E i \in 1..Len(c.ports) : c.ports[i] = r.name
        /\ ~r.found =>
             /\ r.name = <<>>
             /\ r.matched = Disps(rem)
             /\ r.all = [i \in 1..Len(c.ports) |-> _port_display(c.ports[i])]


\* ---------------------------------------------------------------- channel
\* the configured value in tenths, for the values that are finite numbers
IsNumber(c) == c.kind \in {"int", "digits", "float"}
Tenths(c) == IF c.kind = "float" THEN c.val ELSE 10 * c.val

ChannelReturned == Called("_channel_from_config") /\ ret # <<>>

\* what C13 and its amendment share: the channel is in 1..16, an absent or
\* non-numeric value gives 1, and the status bytes are 0x90 + (ch - 1) and
\* 0x80 + (ch - 1), inside 0x90..0x9F and 0x80..0x8F
ChannelBasics(c, r) ==
  /\ r.ch \in 1..16
  /\ c.kind \in {"absent", "null", "text"} => r.ch = 1
  /\ r.on = 144 + (r.ch - 1) /\ r.off = 128 + (r.ch - 1)
  /\ r.on \in 144..159 /\ r.off \in 128..143

\* C13 as stated: besides the basics, every value below 1 gives 1, every
\* value above 16 gives 16 and every value in range is kept.
C13_ChannelClampedKept ==
  ChannelReturned =>
    LET c == call[1].channel
        r == ret[1]
    IN  /\ ChannelBasics(c, r)
        /\ (IsNumber(c) /\ Tenths(c) < 10) => r.ch = 1
        /\ (IsNumber(c) /\ Tenths(c) > 160) => r.ch = 16
        /\ (IsNumber(c) /\ Tenths(c) >= 10 /\ Tenths(c) <= 160) => 10 * r.ch = Tenths(c)

\* C13 (amended): besides the basics, a finite number is first truncated
\* toward zero and then clamped (so an integer in range is kept, 2.5 gives 2
\* and 16.5 gives 16), and an infinite value gives 1.
C13_ChannelTruncatedClamped ==
  ChannelReturned =>
    LET c == call[1].channel
        r == ret[1]
    IN  /\ ChannelBasics(c, r)
        /\ (IsNumber(c) /\ Tenths(c) < 10) => r.ch = 1
        /\ (IsNumber(c) /\ Tenths(c) > 160) => r.ch = 16
        /\ (IsNumber(c) /\ Tenths(c) >= 10 /\ Tenths(c) <= 160) =>
             /\ 10 * r.ch <= Tenths(c) /\ Tenths(c) < 10 * (r.ch + 1)
             /\ c.kind \in {"int", "digits"} => r.ch = c.val
        /\ c.kind = "inf" => r.ch = 1

\* an integer above 16 was clamped to channel 16, status bytes 0x9F and 0x8F
C13_Witness ==
  /\ ChannelReturned
  /\ call[1].channel.kind = "int" /\ call[1].channel.val > 16
  /\ ret[1] = [ch |-> 16, on |-> 159, off |-> 143]

\* ---------------------------------------------------------------------
\* a step taken by process p
StepOf(p) == pc'[p] # pc[p]

\* in check mode p touches neither the device nor the thread nor the endpoint
CheckModeFrame ==
  \A p \in Procs :
    (StepOf(p) /\ mode'[p] = "check") =>
      /\ midiout'[p] = "none"
      /\ pc'[p].srv = "unstarted"
      /\ sock'[p] = "none"
      /\ fs' = fs
      /\ backlog' = backlog

\* in check mode the exit status follows the outcome of the resolution
CheckModeStatus ==
  \A p \in Procs : \A rin \in ResolveSamples : \A c \in RaceScope.chans :
    (mode[p] = "check" /\ ConfigureWith(p, rin, c)) =>
      /\ pc'[p].main = "exited"
      /\ exit'[p] = IF _resolve_port(rin.ports, rin.cfg).found THEN 0 ELSE 2

\* a failed open exits 1 with no thread started
OpenFailureStatus ==
  \A p \in Procs :
    (OpenMidi(p) /\ midiout'[p] # "open") =>
      exit'[p] = 1 /\ pc'[p] = [main |-> "exited", srv |-> "unstarted"]

\* C14: in --check mode the process never opens the output device, never
\* starts the server thread and never probes, removes or binds the endpoint;
\* it exits 0 when exactly one port remains after the filters and exits 2
\* when the resolution fails.  In default mode a failure to open the
\* resolved device exits 1 before any server thread is started.
C14_CheckModeExits ==
  /\ [][CheckModeFrame]_vars
  /\ [][CheckModeStatus]_vars
  /\ [][OpenFailureStatus]_vars

\* ----------------------------------------------------------- the note table
\* tokens close to a note name that the table does not hold: lower case, a
\* flat, one past G9, one below C-1, no octave, and the H of German naming
NotNoteSamples ==
  { <<"c", "#", "4">>, <<"D", "b", "4">>, <<"G", "#", "9">>, <<"C", "-", "2">>,
    <<"C", "#">>, <<"H", "2">>, <<"6", "1">> }

\* the table holds one key per note number, "C#4" is 61, and the samples
\* are no keys
NoteTableExact ==
  /\ \A n \in 0..127 : NOTE_TO_NUM(NoteKey(n)) = n
  /\ \A m, n \in 0..127 : NoteKey(m) = NoteKey(n) => m = n
  /\ NOTE_TO_NUM(<<"C", "#", "4">>) = 61
  /\ NOTE_TO_NUM(<<"C", "-", "1">>) = 0
  /\ NOTE_TO_NUM(<<"G", "9">>) = 127
  /\ \A t \in NotNoteSamples : NOTE_TO_NUM(t) = -1

\* the events connection id of p has caused on the device, in order
EventsOf(p, id) == SelectSeq(wire[p], LAMBDA e : e.conn = id)

\* s is an initial part of t
IsPrefix(s, t) == Len(s) <= Len(t) /\ s = SubSeq(t, 1, Len(s))

\* every connection has caused nothing but an initial part of one on/off
\* pair of one note, and the token a thread holds is one token
OnePairPerConnection ==
  \A p \in Procs :
    /\ \A id \in 1..nArrivals :
         LET ev == EventsOf(p, id)
         IN  ev # <<>> =>
               /\ ev[1].n \in 0..127
               /\ IsPrefix(ev, <<OnEvent(p, id, ev[1].n), OffEvent(p, id, ev[1].n)>>)
    /\ \A i \in 1..Len(token[p]) : token[p][i] \notin Separators

\* the note-off sent on a live handle completes the pair of the token's note
DispatchSendsPair ==
  \A p \in Procs :
    (SendOff(p) /\ midiout[p] = "open" /\ Closes(p, "dispatched")) =>
      LET n == NOTE_TO_NUM(token[p])
          id == cur[p].id
          k == Len(wire'[p])
      IN  /\ n \in 0..127
          /\ k >= 2
          /\ wire'[p][k - 1] = [st |-> status[p].on, n |-> n, vel |-> 127, conn |-> id]
          /\ wire'[p][k] = [st |-> status[p].off, n |-> n, vel |-> 0, conn |-> id]
          /\ Len(SelectSeq(wire'[p], LAMBDA e : e.conn = id)) = 2

\* the status bytes do not change once the server thread runs
StatusFixed == \A p \in Procs : Started(p) => status'[p] = status[p]

\* C15: the table maps the sharp-only name of n mod 12 followed by the
\* octave (n div 12) - 1 to n for every n in 0..127 and maps no other token
\* ("C#4" is 61); a connection whose first token is such a name, handled with
\* a live handle, causes exactly [on, n, 127] then [off, n, 0] with the
\* status bytes fixed at startup; and a connection dispatches at most one
\* token, the first one delimited by commas or whitespace.
C15_OneTokenOnePair ==
  /\ [](NoteTableExact /\ OnePairPerConnection)
  /\ [][DispatchSendsPair /\ StatusFixed]_vars

\* the connection that wrote " D4,C#4" has caused the pair of D4 and nothing
\* else, on the channel the clamp gave
C15_Witness ==
  \E p \in Procs : \E i \in DOMAIN done[p] :
    /\ done[p][i].r = "dispatched"
    /\ status[p].on = NOTE_ON_BASE + 15
    /\ EventsOf(p, done[p][i].id) =
         <<OnEvent(p, done[p][i].id, 62), OffEvent(p, done[p][i].id, 62)>>

\* ----------------------------------------------------------- accept failure
\* a failed accept leaves the thread at accept on its listening socket with
\* the pending connections queued, and ends neither thread nor process
AcceptFailureStaysInLoop ==
  \A p \in Procs :
    AcceptFail(p, LiveScope) =>
      /\ pc'[p] = pc[p] /\ pc'[p].srv = "accept"
      /\ sock'[p] = "listening"
      /\ backlog' = backlog
      /\ exit' = exit /\ thrExit' = thrExit

\* the server of p is at accept after accept has failed, a connection is
\* pending, and p has accepted k connections, fewer than the run allows
PendingAfterFailures(p, k) ==
  /\ Alive(p) /\ pc[p].srv = "accept"
  /\ nAcceptFails[p] > 0
  /\ backlog[p] # <<>>
  /\ Len(accepted[p]) = k /\ k < LiveScope.accepts

\* the connection p accepted as its (k+1)st has been closed by p
Handled(p, k) ==
  /\ Len(accepted[p]) > k /\ Len(done[p]) > k
  /\ done[p][k + 1].id = accepted[p][k + 1]

ClientWrote == Called("send_note") /\ ret # <<>>
                 /\ call[1].arg /\ call[1].connect = "ok" /\ call[1].send = "ok"

\* the reply text the client looks at: decoded, trimmed
ReplyLine == Strip(Decode(call[1].recv.bytes))

\* the server sent no reply: the read timed out, or returned no bytes
NoReply ==
  \/ call[1].recv.r = "timeout"
  \/ call[1].recv.r = "data" /\ call[1].recv.bytes = <<>>

\* C17: a client that connected and wrote its line prints SENT and exits 0
\* when the reply read times out or the server closes without data; a client
\* given a note exits non-zero only with 2 after a failed connect, 3 after a
\* failed send, 4 after a reply read that raised something else than a
\* timeout, and 5 on a reply that starts with ERR (matched in any letter case
\* on the trimmed text); a reply that starts with OK yields exit 0.
C17_ClientStatus ==
  (Called("send_note") /\ ret # <<>> /\ call[1].arg) =>
    LET r == ret[1]
        c == call[1]
        got == ClientWrote /\ c.recv.r = "data"
    IN  /\ (ClientWrote /\ NoReply) => (r.out = "SENT" /\ r.status = 0)
        /\ r.status \in {0, 2, 3, 4, 5}
        /\ r.status = 2 <=> c.connect # "ok"
        /\ r.status = 3 <=> (c.connect = "ok" /\ c.send # "ok")
        /\ r.status = 4 <=> (ClientWrote /\ c.recv.r = "error")
        /\ r.status = 5 <=> (got /\ StartsWith(Lower(ReplyLine), <<"e", "r", "r">>))
        /\ (got /\ StartsWith(Lower(ReplyLine), <<"o", "k">>)) => (r.out = "OK" /\ r.status = 0)

\* the client has reported SENT after a read that timed out although its
\* half-close had failed
C17_Witness ==
  /\ ClientWrote /\ call[1].shutdown = "fail" /\ call[1].recv.r = "timeout"
  /\ ret[1] = Report("SENT", <<>>, 0)

\* ------------------------------------------------- threads and the handle
\* the step is one of p's main thread
MainStep(p) == pc'[p].main # pc[p].main

\* C18: once the server thread runs, the output handle of a process changes
\* only in steps of that thread, never in a step of the main thread (Quit
\* included), and it does not change between the note-on send and the
\* note-off send of a dispatch other than by that note-off send.
C18_HandleOnServerThreadOnly ==
  [][\A p \in Procs :
       (Started(p) /\ midiout'[p] # midiout[p]) =>
         /\ ~MainStep(p)
         /\ pc[p].srv = "send_off" => SendOff(p)]_vars

\* ------------------------------------------------- whose file is removed
\* the step is an os.remove by p that takes the entry away
Removes(p) ==
  /\ GuardRemove(p, "main") \/ GuardRemove(p, "srv") \/ QuitRemove(p)
  /\ fs.kind # "none" /\ fs'.kind = "none"

\* q listens on the socket file that is at the path
ListensOnEntry(q) ==
  /\ Alive(q) /\ sock[q] = "listening"
  /\ fs.kind = "sock" /\ fs.ino = q

\* C19: no process removes the endpoint file while a different process is
\* listening on that file, in the startup guard, in the server thread's
\* guard or in Quit.
C19_NoRemovalOfForeignLiveEndpoint ==
  [][\A p, q \in Procs : (p # q /\ ListensOnEntry(q)) => ~Removes(p)]_vars

\* --------------------------------------------------------- note-on, note-off
\* the device has got the note-on of connection id of p
OnSent(p, id) ==
  \E k \in DOMAIN wire[p] : wire[p][k].conn = id /\ wire[p][k].vel = VELOCITY_ON

\* the device has got, after it, the note-off for the same note
OffSent(p, id) ==
  \E k, j \in DOMAIN wire[p] :
    /\ k < j
    /\ wire[p][k].conn = id /\ wire[p][k].vel = VELOCITY_ON
    /\ wire[p][j] = [st |-> status[p].off, n |-> wire[p][k].n, vel |-> VELOCITY_OFF, conn |-> id]

\* a send of the dispatch of connection id raised
SendFailed(p, id) ==
  \E i \in DOMAIN done[p] : done[p][i] = [id |-> id, r |-> "send_failed"]

\* C20: every note-on the device has got is eventually followed by the
\* note-off of the same note, unless the send of that note-off fails; Quit
\* or a close of the handle between the two does not prevent it.
C20_NoteOnGetsNoteOff ==
  \A p \in LiveScope.procs : \A id \in 1..(RaceBursts * LISTEN_BACKLOG) :
    OnSent(p, id) ~> (OffSent(p, id) \/ SendFailed(p, id))


====
